---- MODULE Spec2Model ----
(***************************************************************************)
(* Model of videin.py: the timeline index, the interval partitioner, the   *)
(* interval-to-file mapper and the sampling planner, as main() runs them.  *)
(*                                                                         *)
(* Times are exact: every time is an integer number of ticks, Scale ticks  *)
(* to the second.  File durations and the two command-line durations are   *)
(* whole seconds, and Scale is a multiple of every interval count the      *)
(* arguments can give, so total_video_duration / num_intervals is exact.   *)
(* Floating-point rounding is not modelled.                                *)
(***************************************************************************)
EXTENDS Integers, Sequences, FiniteSets

\* ---------------------------------------------------------------- bounds
MaxFiles == 3      \* discovered .ts files
MaxDur == 2        \* file durations are 0..MaxDur seconds
MaxSample == 2     \* interval_duration argument is 1..MaxSample seconds
MaxOut == 4        \* total_duration argument is 1..MaxOut seconds

\* max_attempts of create_sampling_plan
MaxAttempts == 100

RECURSIVE Gcd(_, _)
Gcd(a, b) == IF b = 0 THEN a ELSE Gcd(b, a % b)

RECURSIVE LcmUpTo(_)
LcmUpTo(n) == IF n <= 1 THEN 1 ELSE (LcmUpTo(n - 1) * n) \div Gcd(LcmUpTo(n - 1), n)

\* ticks per second: a multiple of every num_intervals in 1..MaxOut
Scale == LcmUpTo(MaxOut)

VARIABLES
    pc,              \* where main() is
    args,            \* parsed arguments: interval_duration, total_duration
    video_files,     \* main's video_files: sequence of VideoFile
    total_duration,  \* main's total_duration (sum of the durations)
    intervals,       \* sequence of Interval
    map_runs,        \* how many times map_videos_to_intervals ran
    samples,         \* create_sampling_plan's samples
    cur,             \* index of the interval the planner is at
    warnings,        \* warnings printed by the planner, in order
    exception        \* the exception that ended the run, or "none"

vars == <<pc, args, video_files, total_duration, intervals, map_runs,
          samples, cur, warnings, exception>>

\* ------------------------------------------------------------ data types
\* VideoFile; path and filename are the identity of the file, here id
VideoFile(id, stamp, dur) ==
    [id |-> id, file_timestamp |-> stamp, duration |-> dur,
     timeline_start |-> 0, timeline_end |-> 0]

\* Interval; __post_init__ turns the missing list into an empty one
Interval(id, start, end) ==
    [interval_id |-> id, start_time |-> start, end_time |-> end,
     video_files |-> <<>>]

\* Sample; source_file is the id of the VideoFile
Sample(id, start, file, offset, dur) ==
    [interval_id |-> id, timeline_start |-> start, source_file |-> file,
     file_offset |-> offset, duration |-> dur]

\* capture timestamps: the sort only compares them, and an earlier and a
\* later one give every outcome of a comparison (before, equal, after)
Stamps == {0, 1}

\* the file sets discover_video_files can return: discovery order, any
\* timestamps, any durations (get_video_duration returns 0.0 when unknown)
FileSets ==
    UNION { [1..n -> Stamps \X (0..MaxDur)] : n \in 0..MaxFiles }

Discovered(fs) ==
    [k \in 1..Len(fs) |-> VideoFile(k, fs[k][1], fs[k][2] * Scale)]

\* ------------------------------------------------- build_timeline_index
\* sorted() is stable: a file goes after every file whose stamp is <= its own
RECURSIVE InsertByStamp(_, _)
InsertByStamp(vf, sorted) ==
    IF sorted = <<>> THEN <<vf>>
    ELSE IF sorted[Len(sorted)].file_timestamp <= vf.file_timestamp
         THEN Append(sorted, vf)
         ELSE Append(InsertByStamp(vf, SubSeq(sorted, 1, Len(sorted) - 1)),
                     sorted[Len(sorted)])

RECURSIVE SortedByStamp(_)
SortedByStamp(files) ==
    IF files = <<>> THEN <<>>
    ELSE InsertByStamp(files[Len(files)],
                       SortedByStamp(SubSeq(files, 1, Len(files) - 1)))

\* variant: the cursor restarts from the file's duration
CursorAfter_DurationOnly(current_time, vf) == vf.duration

\* the cursor after a file is its timeline_end
CursorAfter(current_time, vf) == current_time + vf.duration

RECURSIVE AssignTimeline(_, _)
AssignTimeline(sorted_files, current_time) ==
    IF sorted_files = <<>> THEN <<>>
    ELSE LET vf == Head(sorted_files)
             end == current_time + vf.duration
         IN  <<[vf EXCEPT !.timeline_start = current_time,
                          !.timeline_end = end]>>
             \o AssignTimeline(Tail(sorted_files), CursorAfter(current_time, vf))

build_timeline_index(files) == AssignTimeline(SortedByStamp(files), 0)

RECURSIVE SumDurations(_)
SumDurations(files) ==
    IF files = <<>> THEN 0
    ELSE Head(files).duration + SumDurations(Tail(files))

\* ----------------------------------------------------- create_intervals
\* variant: the quotient rounded up
NumIntervals_RoundUp(interval_duration, total_output_duration) ==
    (total_output_duration + interval_duration - 1) \div interval_duration

\* int(total_output_duration / interval_duration), both positive
NumIntervals(interval_duration, total_output_duration) ==
    total_output_duration \div interval_duration

\* total_video_duration / num_intervals; exact, Scale being a multiple of n
SourceIntervalDuration(total_video_duration, num_intervals) ==
    total_video_duration \div num_intervals

create_intervals(total_video_duration, interval_duration, total_output_duration) ==
    LET n == NumIntervals(interval_duration, total_output_duration)
        d == SourceIntervalDuration(total_video_duration, n)
    IN  [k \in 1..n |-> Interval(k - 1, (k - 1) * d, k * d)]

\* ---------------------------------------------- map_videos_to_intervals
\* variant: spans that only touch count as intersecting
Intersects_Closed(vf, interval) ==
    vf.timeline_end >= interval.start_time /\ vf.timeline_start <= interval.end_time

\* variant: only files lying wholly inside the interval
Intersects_Containment(vf, interval) ==
    vf.timeline_start >= interval.start_time /\ vf.timeline_end <= interval.end_time

Intersects(vf, interval) ==
    vf.timeline_end > interval.start_time /\ vf.timeline_start < interval.end_time

RECURSIVE IntersectingFiles(_, _)
IntersectingFiles(files, interval) ==
    IF files = <<>> THEN <<>>
    ELSE (IF Intersects(Head(files), interval) THEN <<Head(files).id>> ELSE <<>>)
         \o IntersectingFiles(Tail(files), interval)

\* variant: the list is replaced, not appended to
MapInterval_Replace(files, interval) ==
    [interval EXCEPT !.video_files = IntersectingFiles(files, interval)]

\* the files are appended to the list the interval already has
MapInterval(files, interval) ==
    [interval EXCEPT
        !.video_files = interval.video_files \o IntersectingFiles(files, interval)]

map_videos_to_intervals(files, ivs) ==
    [k \in 1..Len(ivs) |-> MapInterval(files, ivs[k])]

\* ------------------------------------------------- create_sampling_plan
Contains(vf, position) ==
    vf.timeline_start <= position /\ position < vf.timeline_end

\* index of the first file containing the position, 0 for None
find_file_at_timeline_position(files, position) ==
    IF \E k \in 1..Len(files) : Contains(files[k], position)
    THEN CHOOSE k \in 1..Len(files) :
            /\ Contains(files[k], position)
            /\ \A j \in 1..(k - 1) : ~Contains(files[j], position)
    ELSE 0

\* variant: the sample duration is not subtracted
MaxStart_NoDuration(interval, sample_duration) == interval.end_time

MaxStart(interval, sample_duration) ==
    IF interval.end_time - sample_duration < interval.start_time
    THEN interval.start_time
    ELSE interval.end_time - sample_duration

\* the grid the draws are taken from: half seconds (Scale is even)
DrawStep == Scale \div 2

\* random.uniform(a, b) is a + (b - a) * random(): any value between a and b,
\* whichever is the larger; here the two ends and every grid point between
UniformDraws(a, b) ==
    LET lo == IF a <= b THEN a ELSE b
        hi == IF a <= b THEN b ELSE a
    IN  {a, b} \cup { k * DrawStep :
                        k \in { j \in (lo \div DrawStep)..(hi \div DrawStep) :
                                  lo <= j * DrawStep } }

\* the window must end inside the file it starts in
Fits(sample_end, source_file) == sample_end <= source_file.timeline_end

\* what one pass of the attempt loop leaves when it does not break
NoSample == [interval_id |-> -1, timeline_start |-> 0, source_file |-> 0,
             file_offset |-> 0, duration |-> 0]

\* variant: the file boundary is not checked
TryOnce_NoBoundaryCheck(files, interval, sample_duration, sample_start) ==
    LET k == find_file_at_timeline_position(files, sample_start)
    IN  IF k # 0
        THEN Sample(interval.interval_id, sample_start, files[k].id,
                    sample_start - files[k].timeline_start, sample_duration)
        ELSE NoSample

\* one pass of the attempt loop with the given draw: the Sample it appends,
\* or NoSample when it goes on to the next pass
TryOnce(files, interval, sample_duration, sample_start) ==
    LET sample_end == sample_start + sample_duration
        k == find_file_at_timeline_position(files, sample_start)
    IN  IF k # 0 /\ Fits(sample_end, files[k])
        THEN Sample(interval.interval_id, sample_start, files[k].id,
                    sample_start - files[k].timeline_start, sample_duration)
        ELSE NoSample

\* every result one pass can have for this interval
PassResults(files, interval, sample_duration) ==
    { TryOnce(files, interval, sample_duration, x) :
        x \in UniformDraws(interval.start_time, MaxStart(interval, sample_duration)) }

\* one pass after `done` passes: the samples it can break with, and the
\* pass count it goes on with when it does not
OnePass(results, done) ==
    [accepted |-> results \ {NoSample},
     ran_out |-> IF NoSample \in results THEN {done + 1} ELSE {}]

\* two runs of passes one after the other
Followed(first, rest) ==
    [accepted |-> first.accepted \cup rest.accepted, ran_out |-> rest.ran_out]

\* `todo` consecutive passes after `done` passes; a run of passes is its
\* first half followed, when that half can end without a break, by the rest
RECURSIVE Passes(_, _, _)
Passes(results, done, todo) ==
    IF todo = 0 THEN [accepted |-> {}, ran_out |-> {done}]
    ELSE IF todo = 1 THEN OnePass(results, done)
    ELSE LET half == todo \div 2
             first == Passes(results, done, half)
         IN  IF first.ran_out = {} THEN first
             ELSE Followed(first, Passes(results, done + half, todo - half))

\* variant: one pass fewer
AttemptLoop_OneShort(results) == Passes(results, 0, MaxAttempts - 1)

\* for _ in range(max_attempts): the samples the loop can break with, and
\* the pass counts it can run out at
AttemptLoop(results) == Passes(results, 0, MaxAttempts)

\* variant: the empty list is not noticed
NoVideoFilesIn_Never(interval) == FALSE

NoVideoFilesIn(interval) == interval.video_files = <<>>

Warning(id, kind, spent) == [interval_id |-> id, kind |-> kind, attempts |-> spent]

\* ------------------------------------------------------------------ Init
\* main() after discover_video_files returned
Init ==
    /\ pc = "discovered"
    /\ \E d \in 1..MaxSample, out \in 1..MaxOut :
          args = [interval_duration |-> d * Scale, total_duration |-> out * Scale]
    /\ \E fs \in FileSets : video_files = Discovered(fs)
    /\ total_duration = 0
    /\ intervals = <<>>
    /\ map_runs = 0
    /\ samples = <<>>
    /\ cur = 0
    /\ warnings = <<>>
    /\ exception = "none"

\* --------------------------------------------------------------- actions
\* "Error: No video files found.", return 1
NoVideoFiles ==
    /\ pc = "discovered"
    /\ video_files = <<>>
    /\ pc' = "exit1"
    /\ UNCHANGED <<args, video_files, total_duration, intervals, map_runs,
                   samples, cur, warnings, exception>>

BuildTimelineIndex ==
    /\ pc = "discovered"
    /\ video_files # <<>>
    /\ total_duration' = SumDurations(video_files)
    /\ video_files' = build_timeline_index(video_files)
    /\ pc' = "indexed"
    /\ UNCHANGED <<args, intervals, map_runs, samples, cur, warnings,
                   exception>>

\* total_video_duration / 0 raises ZeroDivisionError, which nothing catches
CreateIntervals ==
    /\ pc = "indexed"
    /\ IF NumIntervals(args.interval_duration, args.total_duration) = 0
       THEN /\ exception' = "ZeroDivisionError"
            /\ pc' = "crashed"
            /\ UNCHANGED intervals
       ELSE /\ intervals' = create_intervals(total_duration, args.interval_duration,
                                             args.total_duration)
            /\ pc' = "partitioned"
            /\ UNCHANGED exception
    /\ UNCHANGED <<args, video_files, total_duration, map_runs, samples, cur,
                   warnings>>

MapVideosToIntervals ==
    /\ pc = "partitioned"
    /\ intervals' = map_videos_to_intervals(video_files, intervals)
    /\ map_runs' = 1
    /\ pc' = "mapped"
    /\ UNCHANGED <<args, video_files, total_duration, samples, cur, warnings,
                   exception>>

\* create_sampling_plan is entered: samples = []
StartPlan ==
    /\ pc = "mapped"
    /\ samples' = <<>>
    /\ cur' = 1
    /\ pc' = "planning"
    /\ UNCHANGED <<args, video_files, total_duration, intervals, map_runs,
                   warnings, exception>>

\* "Warning: No video files in interval", continue: the loop is not entered
SkipInterval ==
    /\ pc = "planning"
    /\ cur <= Len(intervals)
    /\ NoVideoFilesIn(intervals[cur])
    /\ warnings' = Append(warnings,
                          Warning(intervals[cur].interval_id, "no_files", 0))
    /\ cur' = cur + 1
    /\ UNCHANGED <<pc, args, video_files, total_duration, intervals, map_runs,
                   samples, exception>>

\* the attempt loop on the current interval: it breaks with a sample, or it
\* runs out: "Warning: Could not find valid sample for interval"
PlanInterval ==
    /\ pc = "planning"
    /\ cur <= Len(intervals)
    /\ ~NoVideoFilesIn(intervals[cur])
    /\ \E loop \in {AttemptLoop(PassResults(video_files, intervals[cur],
                                            args.interval_duration))} :
          \/ /\ \E sample \in loop.accepted : samples' = Append(samples, sample)
             /\ UNCHANGED warnings
          \/ /\ \E spent \in loop.ran_out :
                   warnings' = Append(warnings,
                        Warning(intervals[cur].interval_id, "exhausted", spent))
             /\ UNCHANGED samples
    /\ cur' = cur + 1
    /\ UNCHANGED <<pc, args, video_files, total_duration, intervals, map_runs,
                   exception>>

\* return samples
FinishPlan ==
    /\ pc = "planning"
    /\ cur > Len(intervals)
    /\ pc' = "planned"
    /\ UNCHANGED <<args, video_files, total_duration, intervals, map_runs,
                   samples, cur, warnings, exception>>

\* map_videos_to_intervals called again on the same files and intervals
MapAgain ==
    /\ pc = "mapped"
    /\ map_runs = 1
    /\ intervals' = map_videos_to_intervals(video_files, intervals)
    /\ map_runs' = 2
    /\ UNCHANGED <<pc, args, video_files, total_duration, samples, cur,
                   warnings, exception>>

Next ==
    \/ NoVideoFiles
    \/ BuildTimelineIndex
    \/ CreateIntervals
    \/ MapVideosToIntervals
    \/ StartPlan
    \/ SkipInterval
    \/ PlanInterval
    \/ FinishPlan

Spec == Init /\ [][Next]_vars

\* the stages up to the mapper, and the mapper run a second time
NextRerun ==
    \/ NoVideoFiles
    \/ BuildTimelineIndex
    \/ CreateIntervals
    \/ MapVideosToIntervals
    \/ MapAgain

SpecRerun == Init /\ [][NextRerun]_vars

\* ------------------------------------------------------ stages and lookups
Planning == pc \in {"planning", "planned"}

FileById(id) == CHOOSE k \in 1..Len(video_files) : video_files[k].id = id
IntervalById(id) == CHOOSE k \in 1..Len(intervals) : intervals[k].interval_id = id

Listed(vf, interval) ==
    \E j \in 1..Len(interval.video_files) : interval.video_files[j] = vf.id

Larger(a, b) == IF a >= b THEN a ELSE b
Smaller(a, b) == IF a <= b THEN a ELSE b

\* the half-open spans of the file and of the interval share a point
SharePoint(vf, interval) ==
    Larger(vf.timeline_start, interval.start_time)
        < Smaller(vf.timeline_end, interval.end_time)

IntervalLength(interval) == interval.end_time - interval.start_time

\* ------------------------------------------------------------------ claims

\* C1: every emitted Sample has file_offset >= 0 and file_offset + duration
\* <= source_file.duration: the window lies inside one source file.
C1_SampleInsideFile ==
    \A k \in 1..Len(samples) :
        LET vf == video_files[FileById(samples[k].source_file)]
        IN  /\ samples[k].file_offset >= 0
            /\ samples[k].file_offset + samples[k].duration <= vf.duration

\* a sample taken from the middle of a file that is not the first of the
\* timeline, and one whose window ends exactly at the end of its file
C1_Witness ==
    /\ pc = "planned"
    /\ \E k \in 1..Len(samples) :
          LET vf == video_files[FileById(samples[k].source_file)]
          IN  /\ vf.timeline_start > 0
              /\ samples[k].file_offset > 0
              /\ samples[k].file_offset + samples[k].duration = vf.duration

\* C2: after build_timeline_index the files are sorted ascending by
\* timestamp, the first starts at 0, each ends at its start plus its
\* duration, and each file starts where the one before it ends.
C2_TimelineContiguous ==
    pc = "indexed" =>
        /\ video_files[1].timeline_start = 0
        /\ \A k \in 1..Len(video_files) :
              video_files[k].timeline_end
                  = video_files[k].timeline_start + video_files[k].duration
        /\ \A k \in 1..(Len(video_files) - 1) :
              /\ video_files[k].file_timestamp <= video_files[k + 1].file_timestamp
              /\ video_files[k].timeline_end = video_files[k + 1].timeline_start

\* three files, reordered by the sort, two of them with equal stamps, one of
\* duration 0 and one of positive duration before the last
C2_Witness ==
    /\ pc = "indexed"
    /\ Len(video_files) = 3
    /\ video_files[1].id # 1
    /\ \E k \in 1..2 : video_files[k].file_timestamp = video_files[k + 1].file_timestamp
    /\ \E k \in 1..3 : video_files[k].duration = 0
    /\ video_files[3].timeline_start > 0

\* C3: for a timeline longer than 0 and total_output_duration >=
\* sample_interval_duration, create_intervals returns exactly
\* floor(total_output_duration / sample_interval_duration) intervals, ids
\* 0..n-1, each of length total_timeline_duration / n, the first starting at
\* 0, each ending where the next starts, the last ending at the total.
C3_EqualContiguousIntervals ==
    (pc = "partitioned" /\ total_duration > 0
        /\ args.total_duration >= args.interval_duration) =>
        LET n == Len(intervals)
        IN  /\ n * args.interval_duration <= args.total_duration
            /\ args.total_duration < (n + 1) * args.interval_duration
            /\ intervals[1].start_time = 0
            /\ intervals[n].end_time = total_duration
            /\ \A k \in 1..n :
                  /\ intervals[k].interval_id = k - 1
                  /\ n * IntervalLength(intervals[k]) = total_duration
            /\ \A k \in 1..(n - 1) :
                  intervals[k].end_time = intervals[k + 1].start_time

\* three intervals whose length is not a whole number of seconds, the
\* output duration not a multiple of the sample duration
C3_Witness ==
    /\ pc = "partitioned"
    /\ Len(intervals) = 3
    /\ IntervalLength(intervals[1]) % Scale # 0
    /\ \E k \in 1..Len(video_files) :
          /\ video_files[k].timeline_start < intervals[2].start_time
          /\ video_files[k].timeline_end > intervals[2].start_time

\* C4, as claimed: after one run of the mapper, F is in I's list if and
\* only if the half-open spans of F and I share a point (a file span may be
\* empty).
C4_ListedIffSharePoint ==
    (pc = "mapped" /\ map_runs = 1) =>
        \A i \in 1..Len(intervals), k \in 1..Len(video_files) :
            Listed(video_files[k], intervals[i])
                <=> SharePoint(video_files[k], intervals[i])

\* C4, amended: the mapper lists F in I if and only if F.timeline_end >
\* I.start_time and F.timeline_start < I.end_time, each listed file once and
\* in timeline order.  When both spans are non-empty that is the spans
\* sharing a point.  An empty file span shares no point with anything and is
\* listed all the same when it lies strictly inside I; an empty interval
\* lists the files it lies strictly inside.
C4_ListedIffStrictlyCrossing ==
    (pc = "mapped" /\ map_runs = 1) =>
        \A i \in 1..Len(intervals) :
            LET interval == intervals[i] IN
            /\ \A k \in 1..Len(video_files) :
                LET vf == video_files[k] IN
                /\ (vf.duration > 0 /\ IntervalLength(interval) > 0) =>
                      (Listed(vf, interval) <=> SharePoint(vf, interval))
                /\ vf.duration = 0 =>
                      (Listed(vf, interval)
                          <=> /\ interval.start_time < vf.timeline_start
                              /\ vf.timeline_start < interval.end_time)
                /\ (vf.duration > 0 /\ IntervalLength(interval) = 0) =>
                      (Listed(vf, interval)
                          <=> /\ vf.timeline_start < interval.start_time
                              /\ interval.start_time < vf.timeline_end)
            /\ \A a, b \in 1..Len(interval.video_files) :
                  a < b => FileById(interval.video_files[a])
                               < FileById(interval.video_files[b])

\* a file of duration 0 listed in an interval, beside files that share a
\* point with it and a file that does not
C4_Witness ==
    /\ pc = "mapped" /\ map_runs = 1
    /\ \E i \in 1..Len(intervals), k \in 1..Len(video_files) :
          /\ video_files[k].duration = 0
          /\ Listed(video_files[k], intervals[i])
          /\ ~SharePoint(video_files[k], intervals[i])
    /\ \E i \in 1..Len(intervals), k \in 1..Len(video_files) :
          /\ video_files[k].duration > 0
          /\ ~Listed(video_files[k], intervals[i])

\* C5: when total_output_duration < sample_interval_duration, so that
\* interval_count = 0, the run ends with a configuration error reported by
\* the partitioner.
C5_ZeroIntervalsIsConfigurationError ==
    (NumIntervals(args.interval_duration, args.total_duration) = 0
        /\ pc \notin {"discovered", "exit1", "indexed"}) =>
        (pc = "configuration_error" /\ exception = "none")

\* the interval's only intersecting file is shorter than the sample
OnlyShortFile(interval) ==
    /\ Len(interval.video_files) = 1
    /\ video_files[FileById(interval.video_files[1])].duration < args.interval_duration

WarningsFor(id) == { k \in 1..Len(warnings) : warnings[k].interval_id = id }
SamplesFor(id) == { k \in 1..Len(samples) : samples[k].interval_id = id }

\* C6: a file shorter than sample_duration is never the source_file of a
\* Sample; an interval whose only intersecting file is such a file gets no
\* Sample, and once the planner is past it exactly one warning: exhausted
\* after exactly 100 attempts; the planner then goes on.
C6_ShortFileExhausts ==
    /\ \A k \in 1..Len(samples), f \in 1..Len(video_files) :
          video_files[f].duration < args.interval_duration
              => samples[k].source_file # video_files[f].id
    /\ Planning =>
          \A i \in 1..Len(intervals) :
              OnlyShortFile(intervals[i]) =>
                  /\ SamplesFor(intervals[i].interval_id) = {}
                  /\ i >= cur => WarningsFor(intervals[i].interval_id) = {}
                  /\ i < cur =>
                        /\ Cardinality(WarningsFor(intervals[i].interval_id)) = 1
                        /\ \A k \in WarningsFor(intervals[i].interval_id) :
                              /\ warnings[k].kind = "exhausted"
                              /\ warnings[k].attempts = 100

\* the planner returned after an interval with only a short file was
\* exhausted and the interval after it was planned too
C6_Witness ==
    /\ pc = "planned"
    /\ \E i \in 1..(Len(intervals) - 1) :
          /\ OnlyShortFile(intervals[i])
          /\ video_files[FileById(intervals[i].video_files[1])].duration > 0
          /\ WarningsFor(intervals[i].interval_id) # {}
          /\ WarningsFor(intervals[i + 1].interval_id) # {}

\* C7, as claimed: a second run of map_videos_to_intervals on the same files
\* and intervals leaves every interval's file list as the first run left it.
C7_SecondRunLeavesLists ==
    [][(map_runs = 1 /\ map_runs' = 2) =>
          \A i \in 1..Len(intervals) :
              intervals'[i].video_files = intervals[i].video_files]_vars

\* C7, amended: a second run on the same intervals appends every
\* intersecting file once more: each list becomes the first run's list
\* followed by a copy of itself, and nothing else of the interval changes.
C7_SecondRunAppendsAgain ==
    [][(map_runs = 1 /\ map_runs' = 2) =>
          /\ Len(intervals') = Len(intervals)
          /\ \A i \in 1..Len(intervals) :
                intervals'[i] =
                    [intervals[i] EXCEPT
                        !.video_files = intervals[i].video_files
                                            \o intervals[i].video_files]]_vars

\* after the second run an interval that listed two files lists four
C7_Witness ==
    /\ map_runs = 2
    /\ \E i \in 1..Len(intervals) :
          /\ Len(intervals[i].video_files) = 4
          /\ intervals[i].video_files[1] = intervals[i].video_files[3]
          /\ intervals[i].video_files[1] # intervals[i].video_files[2]

\* C8: the plan holds at most one Sample per interval, in strictly
\* increasing interval-id order, every id that of an input interval; an
\* interval with no files gets no Sample and spends no attempts; so there
\* are never more samples than intervals.
C8_OneSamplePerIntervalInOrder ==
    Planning =>
        /\ Len(samples) <= Len(intervals)
        /\ \A a, b \in 1..Len(samples) :
              a < b => samples[a].interval_id < samples[b].interval_id
        /\ \A k \in 1..Len(samples) :
              \E i \in 1..Len(intervals) :
                  intervals[i].interval_id = samples[k].interval_id
        /\ \A i \in 1..Len(intervals) :
              intervals[i].video_files = <<>> =>
                  /\ SamplesFor(intervals[i].interval_id) = {}
                  /\ \A k \in WarningsFor(intervals[i].interval_id) :
                        warnings[k].kind = "no_files" /\ warnings[k].attempts = 0
                  /\ i < cur => Cardinality(WarningsFor(intervals[i].interval_id)) = 1

\* a plan of three intervals with samples for the first and the last only
C8_Witness ==
    /\ pc = "planned"
    /\ Len(intervals) = 3
    /\ Len(samples) = 2
    /\ samples[1].interval_id = 0
    /\ samples[2].interval_id = 2

\* C9: a Sample's timeline_start lies in its interval; when the interval is
\* at least sample_duration long the window ends no later than the interval;
\* when it is shorter the start is the interval's start and the window ends
\* past the interval's end.
C9_StartInsideInterval ==
    \A k \in 1..Len(samples) :
        LET interval == intervals[IntervalById(samples[k].interval_id)]
            start == samples[k].timeline_start
            d == samples[k].duration
        IN  /\ interval.start_time <= start
            /\ start <= interval.end_time
            /\ IntervalLength(interval) >= d => start + d <= interval.end_time
            /\ IntervalLength(interval) < d =>
                  (start = interval.start_time /\ start + d > interval.end_time)

\* a sample at the latest start the clamp allows, in an interval longer
\* than the sample and not the first
C9_Witness ==
    /\ pc = "planned"
    /\ \E k \in 1..Len(samples) :
          LET interval == intervals[IntervalById(samples[k].interval_id)]
          IN  /\ interval.interval_id > 0
              /\ samples[k].timeline_start > interval.start_time
              /\ samples[k].timeline_start + samples[k].duration = interval.end_time

\* the other case of C9: a sample of an interval shorter than the sample
C9_WitnessShortInterval ==
    /\ pc = "planned"
    /\ \E k \in 1..Len(samples) :
          LET interval == intervals[IntervalById(samples[k].interval_id)]
          IN  /\ interval.interval_id > 0
              /\ IntervalLength(interval) < samples[k].duration

\* C10: the source_file of every Sample is in the video_files list of the
\* interval whose id the Sample carries (intervals of positive length,
\* mapped by map_videos_to_intervals over the built timeline).
C10_SourceFileListed ==
    \A k \in 1..Len(samples) :
        LET interval == intervals[IntervalById(samples[k].interval_id)]
        IN  IntervalLength(interval) > 0 =>
                \E j \in 1..Len(interval.video_files) :
                    interval.video_files[j] = samples[k].source_file

\* a sample taken from the second of the files its interval lists
C10_Witness ==
    /\ pc = "planned"
    /\ \E k \in 1..Len(samples) :
          LET interval == intervals[IntervalById(samples[k].interval_id)]
          IN  /\ Len(interval.video_files) >= 2
              /\ interval.video_files[2] = samples[k].source_file

====
